---- MODULE Spec2Model ----
(***************************************************************************)
(* A model of tabol: the table grammar's rule parser (src/src/nom_parser.rs) *)
(* and the registry, resolution engine, filters and dice                   *)
(* (src/src/tabol.rs).                                                     *)
(*                                                                         *)
(* Text is modelled as a sequence of one-character strings, so that the    *)
(* parser and the filters work on characters as the code does.  A document *)
(* is a sequence of table blocks whose frontmatter has been read (its id)  *)
(* and whose rule lines are split into the weight and the text after the   *)
(* ": " separator; the text of a rule is parsed character by character.    *)
(***************************************************************************)
EXTENDS Integers, Sequences, FiniteSets, TLC

\* ------------------------------------------------------------------ text

Digits == <<"0", "1", "2", "3", "4", "5", "6", "7", "8", "9">>

LowerCase == <<"a", "b", "c", "d", "e", "f", "g", "h", "i", "j", "k", "l", "m",
               "n", "o", "p", "q", "r", "s", "t", "u", "v", "w", "x", "y", "z">>

UpperCase == <<"A", "B", "C", "D", "E", "F", "G", "H", "I", "J", "K", "L", "M",
               "N", "O", "P", "Q", "R", "S", "T", "U", "V", "W", "X", "Y", "Z">>

Range(f) == {f[i] : i \in DOMAIN f}

DigitChars == Range(Digits)

\* char::is_alphanumeric, on the characters of the model
AlphaNumeric == Range(LowerCase) \cup Range(UpperCase) \cup DigitChars

\* char::is_ascii_punctuation, on the characters of the model
AsciiPunctuation == {"{", "}", "|", "!", ".", ",", ":"}

\* the predicate of ident's take_while1
IdentChars == AlphaNumeric \cup {"_"}

\* the predicate of literal's take_while1
LiteralChars == AlphaNumeric \cup {"_", "-", " "} \cup AsciiPunctuation

StartsWith(s, p) == Len(s) >= Len(p) /\ SubSeq(s, 1, Len(p)) = p

Drop(s, n) == SubSeq(s, n + 1, Len(s))

\* the length of the longest prefix of s whose characters are all in S
PrefixLen(s, S) ==
  CHOOSE n \in 0..Len(s) :
    /\ \A i \in 1..n : s[i] \in S
    /\ n = Len(s) \/ s[n + 1] \notin S

\* the value of the digit character c
DigitValue(c) == (CHOOSE i \in DOMAIN Digits : Digits[i] = c) - 1

\* usize is modelled UsizeBits wide
UsizeBits == 6

UsizeMax == 2 ^ UsizeBits - 1

\* the value of a string of digits
RECURSIVE ParseFromStr(_)
ParseFromStr(s) ==
  IF s = <<>> THEN 0
  ELSE 10 * ParseFromStr(SubSeq(s, 1, Len(s) - 1)) + DigitValue(s[Len(s)])

\* usize::to_string
RECURSIVE to_string(_)
to_string(n) ==
  IF n < 10 THEN <<Digits[n + 1]>>
  ELSE to_string(n \div 10) \o <<Digits[(n % 10) + 1]>>

\* char::to_uppercase
ToUppercase(c) ==
  IF c \in Range(LowerCase)
  THEN UpperCase[CHOOSE i \in DOMAIN LowerCase : LowerCase[i] = c]
  ELSE c

OPEN == <<"{", "{">>

CLOSE == <<"}", "}">>

\* ---------------------------------------------------------------- parser
\* A parser's result: k is "ok", "error" (nom's recoverable Err::Error),
\* "failure" (Err::Failure, after cut) or "panic"; v the output, rest the
\* remaining input.
\*
\* An intermediate result is bound as  Only({ e(x) : x \in {r} })  where a LET
\* would read more easily: the bound x is evaluated once.

Only(S) == CHOOSE v \in S : TRUE

Ok(v, rest) == [k |-> "ok", v |-> v, rest |-> rest]

Err(kind, rest) == [k |-> kind, v |-> <<>>, rest |-> rest]

tag(t, s) == IF StartsWith(s, t) THEN Ok(t, Drop(s, Len(t))) ELSE Err("error", s)

\* digit1
digit1(s) ==
  Only({IF n >= 1 THEN Ok(SubSeq(s, 1, n), Drop(s, n))
        ELSE Err("error", s) : n \in {PrefixLen(s, DigitChars)}})

\* digit1.parse_from_str(): str::parse::<usize> fails on a value above
\* usize::MAX
digit1_usize(s) ==
  Only({IF d.k # "ok" THEN d
        ELSE Only({IF n > UsizeMax THEN Err("error", s) ELSE Ok(n, d.rest) :
                   n \in {ParseFromStr(d.v)}}) :
        d \in {digit1(s)}})

ident(s) ==
  Only({IF n >= 1 THEN Ok(SubSeq(s, 1, n), Drop(s, n))
        ELSE Err("error", s) : n \in {PrefixLen(s, IdentChars)}})

\* take_while in the place of take_while1: the empty match is accepted
literal0(s) ==
  Only({Ok(SubSeq(s, 1, n), Drop(s, n)) : n \in {PrefixLen(s, LiteralChars)}})

literal(s) ==
  Only({IF n >= 1 THEN Ok(SubSeq(s, 1, n), Drop(s, n))
        ELSE Err("error", s) : n \in {PrefixLen(s, LiteralChars)}})

\* take_until("{{"): the text before the first "{{", an error when there is none
take_until_open(s) ==
  Only({IF at = {} THEN Err("error", s)
        ELSE Only({Ok(SubSeq(s, 1, i - 1), Drop(s, i - 1)) :
                   i \in {j \in at : \A m \in at : j <= m}}) :
        at \in {{i \in 1..Len(s) : StartsWith(Drop(s, i - 1), OPEN)}}})

DiceRoll(count, sides) == [t |-> "DiceRoll", count |-> count, sides |-> sides]

Literal(text) == [t |-> "Literal", text |-> text]

Interpolation(id, opts) == [t |-> "Interpolation", id |-> id, opts |-> opts]

\* digit1.parse_from_str().preceded_by(tag("d")): "d" and the sides
d_sides(s) ==
  Only({IF d.k # "ok" THEN d ELSE digit1_usize(d.rest) : d \in {tag(<<"d">>, s)}})

\* tuple((digit1, "d" digit1)): the count, "d" and the sides
count_d_sides(s) ==
  Only({IF c.k # "ok" THEN c
        ELSE Only({IF ds.k # "ok" THEN ds ELSE Ok(<<c.v, ds.v>>, ds.rest) :
                   ds \in {d_sides(c.rest)}}) :
        c \in {digit1_usize(s)}})

\* tuple((digit1, "d" digit1)).or("d" digit1 with a count of 1)
count_and_sides(s) ==
  Only({IF both.k = "ok" THEN both
        ELSE Only({IF one.k = "ok" THEN Ok(<<1, one.v>>, one.rest)
                   ELSE Err("error", s) :
                   one \in {d_sides(s)}}) :
        both \in {count_d_sides(s)}})

\* "{{" (digits "d" digits | "d" digits) "}}"
rule_dice_roll(s) ==
  Only({IF o.k # "ok" THEN Err("error", s)
        ELSE Only({IF cs.k # "ok" THEN Err("error", s)
                   ELSE Only({IF c.k # "ok" THEN Err("error", s)
                              ELSE Ok(DiceRoll(cs.v[1], cs.v[2]), c.rest) :
                              c \in {tag(CLOSE, cs.rest)}}) :
                   cs \in {count_and_sides(o.rest)}}) :
        o \in {tag(OPEN, s)}})

\* many0(ident.preceded_by(tag("|"))): the filter names and the input left
RECURSIVE filter_names(_, _)
filter_names(s, acc) ==
  Only({IF bar.k # "ok" THEN Ok(acc, s)
        ELSE Only({IF name.k # "ok" THEN Ok(acc, s)
                   ELSE filter_names(name.rest, Append(acc, name.v)) :
                   name \in {ident(bar.rest)}}) :
        bar \in {tag(<<"|">>, s)}})

FilterNames ==
  [definite |-> <<"d", "e", "f", "i", "n", "i", "t", "e">>,
   indefinite |-> <<"i", "n", "d", "e", "f", "i", "n", "i", "t", "e">>,
   capitalize |-> <<"c", "a", "p", "i", "t", "a", "l", "i", "z", "e">>]

FilterOfName(name) ==
  IF name = FilterNames.definite THEN "DefiniteArticle"
  ELSE IF name = FilterNames.indefinite THEN "IndefiniteArticle"
  ELSE "Capitalize"

\* the map over the names: any other name panics ("unknown filter")
filters(s) ==
  Only({IF \E i \in DOMAIN names.v : names.v[i] \notin Range(FilterNames)
        THEN Err("panic", s)
        ELSE Ok([i \in DOMAIN names.v |-> FilterOfName(names.v[i])], names.rest) :
        names \in {filter_names(s, <<>>)}})

\* pair(ident.cut(), filters)
pipeline(s) ==
  Only({IF id.k # "ok" THEN Err("failure", s)
        ELSE Only({IF fs.k # "ok" THEN fs ELSE Ok(<<id.v, fs.v>>, fs.rest) :
                   fs \in {filters(id.rest)}}) :
        id \in {ident(s)}})

\* "{{" pipeline "}}"
rule_interpolation(s) ==
  Only({IF o.k # "ok" THEN Err("error", s)
        ELSE Only({IF p.k # "ok" THEN Err(p.k, s)
                   ELSE Only({IF c.k # "ok" THEN Err("error", s)
                              ELSE Ok(Interpolation(p.v[1], p.v[2]), c.rest) :
                              c \in {tag(CLOSE, p.rest)}}) :
                   p \in {pipeline(o.rest)}}) :
        o \in {tag(OPEN, s)}})

\* map_parser(take_until("{{").or(not_line_ending), literal): the literal is
\* read from the text before the next "{{" (or the rest of the line), and
\* what it leaves of that text is dropped by map_parser
rule_literal(s) ==
  Only({Only({IF l.k # "ok" THEN Err("error", s) ELSE Ok(Literal(l.v), outer.rest) :
              l \in {literal(outer.v)}}) :
        outer \in {Only({IF u.k = "ok" THEN u ELSE Ok(s, <<>>) :
                         u \in {take_until_open(s)}})}})

\* rule_dice_roll.or(rule_interpolation).or(rule_literal)
rule_part(s) ==
  Only({IF d.k # "error" THEN d
        ELSE Only({IF i.k # "error" THEN i ELSE rule_literal(s) :
                   i \in {rule_interpolation(s)}}) :
        d \in {rule_dice_roll(s)}})

\* many1's loop after the first part: it stops at the first recoverable error
RECURSIVE rule_more(_, _)
rule_more(s, acc) ==
  Only({IF p.k = "error" THEN Ok(acc, s)
        ELSE IF p.k # "ok" THEN Err(p.k, s)
        ELSE IF Len(p.rest) = Len(s) THEN Err("error", s)
        ELSE rule_more(p.rest, Append(acc, p.v)) :
        p \in {rule_part(s)}})

\* many1(...).with_recognized(): v is <<raw, parts>>
rule(s) ==
  Only({IF first.k # "ok" THEN Err(first.k, s)
        ELSE Only({IF all.k # "ok" THEN Err(all.k, s)
                   ELSE Ok(<<SubSeq(s, 1, Len(s) - Len(all.rest)), all.v>>, all.rest) :
                   all \in {rule_more(first.rest, <<first.v>>)}}) :
        first \in {rule_part(s)}})

\* ------------------------------------------------------- table definitions

Rule(raw, weight, parts) == [raw |-> raw, weight |-> weight, parts |-> parts]

\* WeightedIndex::new(&weights): an error when a weight is negative or when
\* all weights are zero (there is always at least one rule)
WeightedIndexNew(weights) ==
  IF \E i \in DOMAIN weights : weights[i] < 0 THEN "InvalidWeight"
  ELSE IF \A i \in DOMAIN weights : weights[i] = 0 THEN "AllWeightsZero"
  ELSE "Ok"

\* the indices WeightedIndex::sample can return: those of nonzero weight
Sample(weights) == {i \in DOMAIN weights : weights[i] > 0}

\* TableDefinition::new: the unwrap of WeightedIndex::new panics on an error
TableDefinitionNew(id, rules) ==
  LET weights == [i \in DOMAIN rules |-> rules[i].weight]
  IN  IF WeightedIndexNew(weights) # "Ok" THEN Err("panic", <<>>)
      ELSE Ok([id |-> id, rules |-> rules, weights |-> weights], <<>>)

\* rule_line, on a line whose weight and ": " have been read: the parsed rule;
\* what rule leaves of the line is dropped by map_parser(not_line_ending, ..).
\* On a frontmatter line ("---") the weight fails to parse.
rule_line(line) ==
  IF line.t # "rule" THEN Err("error", <<>>)
  ELSE Only({IF r.k # "ok" THEN Err(r.k, line.body)
             ELSE Ok(Rule(r.v[1], line.weight, r.v[2]), <<>>) :
             r \in {rule(line.body)}})

\* the loop of separated_list1(line_ending, rule_line) after its first rule:
\* v the rules read, rest the lines not read (the list ends at the first line
\* that fails recoverably)
RECURSIVE rules_more(_, _)
rules_more(lines, acc) ==
  IF lines = <<>> THEN Ok(acc, <<>>)
  ELSE Only({IF r.k = "error" THEN Ok(acc, lines)
             ELSE IF r.k # "ok" THEN Err(r.k, lines)
             ELSE rules_more(Tail(lines), Append(acc, r.v)) :
             r \in {rule_line(Head(lines))}})

rules(lines) ==
  IF lines = <<>> THEN Err("error", lines)
  ELSE Only({IF first.k # "ok" THEN Err(first.k, lines)
             ELSE rules_more(Tail(lines), <<first.v>>) :
             first \in {rule_line(Head(lines))}})

\* frontmatter, on a line that stands for a whole block "---", id, title, "---"
frontmatter(lines) ==
  IF lines # <<>> /\ Head(lines).t = "frontmatter"
  THEN Ok(Head(lines).id, Tail(lines))
  ELSE Err("error", lines)

\* tuple((frontmatter, rules)).map(TableDefinition::new)
table(lines) ==
  Only({IF fm.k # "ok" THEN fm
        ELSE Only({IF rs.k # "ok" THEN Err(rs.k, rs.rest)
                   ELSE Only({IF def.k # "ok" THEN def ELSE Ok(def.v, rs.rest) :
                              def \in {TableDefinitionNew(fm.v, rs.v)}}) :
                   rs \in {rules(fm.rest)}}) :
        fm \in {frontmatter(lines)}})

\* many1(table): the tables read and the lines left
RECURSIVE tables_more(_, _)
tables_more(lines, acc) ==
  Only({IF t.k = "error"
        THEN IF acc = <<>> THEN Err("error", lines) ELSE Ok(acc, lines)
        ELSE IF t.k # "ok" THEN Err(t.k, lines)
        ELSE tables_more(t.rest, Append(acc, t.v)) :
        t \in {table(lines)}})

\* final_parser(many1(table)): the tables in order, or "error" (a ParseError:
\* many1 failed, or lines are left before the end of the input) or "panic"
parse_tables(input) ==
  Only({IF ts.k = "panic" THEN Err("panic", <<>>)
        ELSE IF ts.k # "ok" \/ ts.rest # <<>> THEN Err("error", ts.rest)
        ELSE Ok(ts.v, <<>>) :
        ts \in {tables_more(input, <<>>)}})

\* table_map.insert(table.id, table) for each table in order: a later table
\* replaces an earlier one of the same id
RECURSIVE InsertAll(_, _)
InsertAll(tables, map) ==
  IF tables = <<>> THEN map
  ELSE LET t == Head(tables)
       IN  InsertAll(Tail(tables),
                     [i \in DOMAIN map \cup {t.id} |-> IF i = t.id THEN t ELSE map[i]])

EmptyMap == [i \in {} |-> <<>>]

\* --------------------------------------------------------------- filters

The == <<"t", "h", "e", " ">>

An == <<"a", "n", " ">>

A == <<"a", " ">>

\* FilterOp::apply
apply(op, value) ==
  IF op = "DefiniteArticle" THEN The \o value
  ELSE IF op = "IndefiniteArticle"
  THEN IF value # <<>> /\ value[1] \in {"a", "e", "i", "o", "u"}
       THEN An \o value
       ELSE A \o value
  ELSE IF value = <<>> THEN value
  ELSE <<ToUppercase(value[1])>> \o Tail(value)

\* for opt in opts { opt.apply(&mut resolved) }
RECURSIVE ApplyAll(_, _)
ApplyAll(opts, value) ==
  IF opts = <<>> THEN value ELSE ApplyAll(Tail(opts), apply(Head(opts), value))

\* a join that puts a space between the strings
RECURSIVE JoinSpaced(_)
JoinSpaced(strs) ==
  IF strs = <<>> THEN <<>>
  ELSE IF Len(strs) = 1 THEN Head(strs)
  ELSE Head(strs) \o <<" ">> \o JoinSpaced(Tail(strs))

\* resolved.join("")
RECURSIVE Join(_)
Join(strs) == IF strs = <<>> THEN <<>> ELSE Head(strs) \o Join(Tail(strs))

\* ------------------------------------------------------------------ dice

\* the result of an operation that panicked
Panicked == -1

\* a + b in usize: above usize::MAX it panics when the build checks overflow
\* (debug) and wraps when it does not (release)
UsizeAdd(a, b, checks) ==
  IF a + b <= UsizeMax THEN a + b
  ELSE IF checks THEN Panicked
  ELSE (a + b) % (UsizeMax + 1)

\* the values of rng.sample(Uniform::new(low, high)): low..high-1
Uniform(low, high) == low..(high - 1)

\* rng.sample(Uniform::new(1, sides + 1)): Uniform::new panics unless
\* low < high
Draws(sides, checks) ==
  Only({IF high = Panicked \/ 1 >= high THEN {Panicked} ELSE Uniform(1, high) :
        high \in {UsizeAdd(sides, 1, checks)}})

\* total += rng.sample(..): the totals after one more draw
AddDraw(total, sides, checks) ==
  {IF d = Panicked THEN Panicked ELSE UsizeAdd(total, d, checks) :
   d \in Draws(sides, checks)}

\* roll_dice(count, sides): the totals it can return, Panicked when it can panic
RECURSIVE RollDice(_, _, _)
RollDice(count, sides, checks) ==
  IF count = 0 THEN {0}
  ELSE UNION {IF t = Panicked THEN {Panicked} ELSE AddDraw(t, sides, checks) :
              t \in RollDice(count - 1, sides, checks)}

\* ------------------------------------------------------------- documents

MaxLines == 4

MaxDepth == 3

MaxCount == 2

MaxDiceCount == 5

MaxSides == 10

MaxPipeline == 3

MaxText == 2

IdA == <<"a">>

IdD == <<"d">>

IdZ == <<"z">>

\* the ids a document's tables declare
Ids == {IdA, IdD}

\* the ids a caller asks for: IdZ is never declared
CallIds == Ids \cup {IdZ}

Elf == <<"e", "l", "f">>

Red == <<"R", "e", "d">>

Unknown == <<"u", "n", "k", "n", "o", "w", "n">>

\* {{d}}
RefD == OPEN \o IdD \o CLOSE

\* {{d2}}
D2 == OPEN \o <<"d", "2">> \o CLOSE

\* {{1d0}}
OneD0 == OPEN \o <<"1", "d", "0">> \o CLOSE

\* {{a|unknown}}
RefUnknown == OPEN \o IdA \o <<"|">> \o Unknown \o CLOSE

\* {{a|capitalize|indefinite}}!
RefFiltered ==
  OPEN \o IdA \o <<"|">> \o FilterNames.capitalize \o <<"|">>
       \o FilterNames.indefinite \o CLOSE \o <<"!">>

\* a frontmatter block declaring id (and a title)
Frontmatter(id) == [t |-> "frontmatter", id |-> id]

\* a rule line "weight: body"
Line(weight, body) == [t |-> "rule", weight |-> weight, body |-> body]

\* the lines of well-formed documents
Lines ==
  {Frontmatter(id) : id \in Ids}
    \cup {Line(1, Elf), Line(1, RefD), Line(1, RefFiltered), Line(1, D2)}

\* and the lines of the others: a weight of zero, a die of no sides, an
\* unknown filter
AnyLines ==
  Lines \cup {Line(0, Elf), Line(1, Red), Line(1, OneD0), Line(1, RefUnknown)}

\* the documents of at most MaxLines lines
Documents == UNION {[1..n -> Lines] : n \in 1..MaxLines}

AnyDocuments == UNION {[1..n -> AnyLines] : n \in 1..MaxLines}

\* ----------------------------------------------------------------- state

VARIABLES
  document,   \* the source given to Tabol::new
  pc,         \* "new", "validate", "ready" (a Tabol was returned), "done"
              \* (new returned an error), "aborted" (a panic), "deep"
  outcome,    \* what Tabol::new returned: "none" until it does
  table_map,  \* Tabol.table_map
  todo,       \* validate_tables: the ids its iteration has not reached
  vtable,     \* validate_tables: the table being validated (<<>>: none)
  vrule,      \* validate_tables: the next rule of vtable
  call,       \* the last call made: validate, gen or gen_many
  stack,      \* the frames of Rule::resolve in progress, innermost last
  results,    \* gen_many's results
  ret,        \* what call returned ("none" while it runs)
  dice,       \* a call of roll_dice: its arguments, loop counter and total
  filt,       \* a string and the filters applied to it so far
  render,     \* a call of write_base_error: its arguments and what it wrote
  parse       \* a rule body and what the rule parsers made of it

vars == <<document, pc, outcome, table_map, todo, vtable, vrule, call, stack,
          results, ret, dice, filt, render, parse>>

\* the state of the parts that a specification of the registry leaves alone
aux == <<dice, filt, render, parse>>

DiceOff == dice = [st |-> "off"]

FiltOff == filt = [st |-> "off"]

RenderOff == render = [st |-> "off"]

ParseOff == parse = [st |-> "off"]

\* no Tabol is being built
TabolOff ==
  /\ document = <<>>
  /\ pc = "off"
  /\ outcome = "none"
  /\ table_map = <<>>
  /\ todo = {}
  /\ vtable = <<>>
  /\ vrule = 1
  /\ call = [kind |-> "none", id |-> <<>>, count |-> 0]
  /\ stack = <<>>
  /\ results = <<>>
  /\ ret = [k |-> "none", v |-> <<>>]

tabol == <<document, pc, outcome, table_map, todo, vtable, vrule, call, stack,
           results, ret>>

NoCall == [kind |-> "none", id |-> <<>>, count |-> 0]

NoRet == [k |-> "none", v |-> <<>>]

Frame(id, r) == [id |-> id, rule |-> r, part |-> 1, resolved |-> <<>>]

Top == stack[Len(stack)]

TopRule == table_map[Top.id].rules[Top.rule]

\* the part the innermost resolve is about to evaluate
TopPart == TopRule.parts[Top.part]

Resolving == stack # <<>> /\ pc \in {"validate", "ready"}

AtPart(t) == Resolving /\ Top.part <= Len(TopRule.parts) /\ TopPart.t = t

\* the innermost frame with one more part's string, and the next part
Push(str) ==
  [stack EXCEPT ![Len(stack)] =
     [@ EXCEPT !.resolved = Append(@, str), !.part = @ + 1]]

Start ==
  /\ pc = "new"
  /\ outcome = "none"
  /\ table_map = EmptyMap
  /\ todo = {}
  /\ vtable = <<>>
  /\ vrule = 1
  /\ call = NoCall
  /\ stack = <<>>
  /\ results = <<>>
  /\ ret = NoRet

Init == document \in Documents /\ Start /\ DiceOff /\ FiltOff /\ RenderOff /\ ParseOff

InitAny ==
  document \in AnyDocuments /\ Start /\ DiceOff /\ FiltOff /\ RenderOff /\ ParseOff

\* Tabol::new up to the call of validate_tables
New ==
  /\ pc = "new"
  /\ \E parsed \in {parse_tables(document)} :
         IF parsed.k = "panic"
         THEN /\ pc' = "aborted"
              /\ outcome' = "panic"
              /\ UNCHANGED <<table_map, todo, call>>
         ELSE IF parsed.k # "ok"
         THEN /\ pc' = "done"
              /\ outcome' = "ParseError"
              /\ UNCHANGED <<table_map, todo, call>>
         ELSE /\ pc' = "validate"
              /\ table_map' = InsertAll(parsed.v, EmptyMap)
              /\ todo' = DOMAIN table_map'
              /\ call' = [kind |-> "validate", id |-> <<>>, count |-> 0]
              /\ UNCHANGED outcome
  /\ UNCHANGED <<document, vtable, vrule, stack, results, ret>>
  /\ UNCHANGED aux

\* a validation that resolves only the first rule of each table
NextToValidateFirstOnly == {<<id, 1>> : id \in todo}

\* the rules validate_tables can resolve next: the next rule of the table it is
\* at, else the first rule of a table its iteration has not reached
NextToValidate ==
  IF vtable # <<>> /\ vrule <= Len(table_map[vtable].rules)
  THEN {<<vtable, vrule>>}
  ELSE {<<id, 1>> : id \in todo}

\* validate_tables: rule.resolve(&self) for the next rule
ValidateRule ==
  /\ pc = "validate" /\ stack = <<>>
  /\ \E n \in NextToValidate :
       /\ vtable' = n[1]
       /\ vrule' = n[2] + 1
       /\ todo' = todo \ {n[1]}
       /\ stack' = <<Frame(n[1], n[2])>>
  /\ UNCHANGED <<document, pc, outcome, table_map, call, results, ret>>
  /\ UNCHANGED aux

\* validate_tables: every rule resolved, Ok(self)
ValidateDone ==
  /\ pc = "validate" /\ stack = <<>> /\ NextToValidate = {}
  /\ pc' = "ready"
  /\ outcome' = "Ok"
  /\ call' = NoCall
  /\ vtable' = <<>>
  /\ vrule' = 1
  /\ UNCHANGED <<document, table_map, todo, stack, results, ret>>
  /\ UNCHANGED aux

\* an Err(CallError) reaches the outermost caller through every `?`:
\* validate_tables returns InvalidDefinition, gen and gen_many the CallError
Fail ==
  /\ stack' = <<>>
  /\ results' = <<>>
  /\ IF call.kind = "validate"
     THEN pc' = "done" /\ outcome' = "InvalidDefinition" /\ UNCHANGED ret
     ELSE ret' = [k |-> "CallError", v |-> <<>>] /\ UNCHANGED <<pc, outcome>>
  /\ UNCHANGED call

\* a panic ends the process
Panic ==
  /\ pc' = "aborted"
  /\ IF call.kind = "validate"
     THEN outcome' = "panic" /\ UNCHANGED ret
     ELSE ret' = [k |-> "panic", v |-> <<>>] /\ UNCHANGED outcome
  /\ UNCHANGED <<stack, results, call>>

\* Rule::resolve, RuleInst::Literal(str) => Ok(str.to_string())
ResolveLiteral ==
  /\ AtPart("Literal")
  /\ stack' = Push(TopPart.text)
  /\ UNCHANGED <<document, pc, outcome, table_map, todo, vtable, vrule, call,
                 results, ret>>
  /\ UNCHANGED aux

\* Rule::resolve, RuleInst::DiceRoll => Ok(roll_dice(count, sides).to_string())
ResolveDiceRoll ==
  /\ AtPart("DiceRoll")
  /\ \E checks \in BOOLEAN :
       \E total \in RollDice(TopPart.count, TopPart.sides, checks) :
         IF total = Panicked
         THEN Panic
         ELSE /\ stack' = Push(to_string(total))
              /\ UNCHANGED <<pc, outcome, call, results, ret>>
  /\ UNCHANGED <<document, table_map, todo, vtable, vrule>>
  /\ UNCHANGED aux

\* an interpolation that resolves the table of its own rule again, not the
\* table it names
ResolveInterpolationOfSelf ==
  /\ AtPart("Interpolation")
  /\ IF TopPart.id \notin DOMAIN table_map
     THEN Fail
     ELSE IF Len(stack) >= MaxDepth
     THEN pc' = "deep" /\ UNCHANGED <<stack, outcome, call, results, ret>>
     ELSE /\ \E r \in Sample(table_map[Top.id].weights) :
               stack' = Append(stack, Frame(Top.id, r))
          /\ UNCHANGED <<pc, outcome, call, results, ret>>
  /\ UNCHANGED <<document, table_map, todo, vtable, vrule>>
  /\ UNCHANGED aux

\* Rule::resolve, RuleInst::Interpolation: tables.gen(id)? looks the table up,
\* samples one of its rules and resolves it; a missing table is a CallError
ResolveInterpolation ==
  /\ AtPart("Interpolation")
  /\ IF TopPart.id \notin DOMAIN table_map
     THEN Fail
     ELSE IF Len(stack) >= MaxDepth
     THEN pc' = "deep" /\ UNCHANGED <<stack, outcome, call, results, ret>>
     ELSE /\ \E r \in Sample(table_map[TopPart.id].weights) :
               stack' = Append(stack, Frame(TopPart.id, r))
          /\ UNCHANGED <<pc, outcome, call, results, ret>>
  /\ UNCHANGED <<document, table_map, todo, vtable, vrule>>
  /\ UNCHANGED aux

\* Rule::resolve returns Ok(resolved.join("")) to the interpolation that
\* called gen, which applies its filters in order
ReturnInner ==
  /\ Resolving /\ Top.part > Len(TopRule.parts) /\ Len(stack) > 1
  /\ LET str == Join(Top.resolved)
         caller == stack[Len(stack) - 1]
         opts == table_map[caller.id].rules[caller.rule].parts[caller.part].opts
         popped == SubSeq(stack, 1, Len(stack) - 1)
     IN  stack' = [popped EXCEPT ![Len(popped)] =
                     [@ EXCEPT !.resolved = Append(@, ApplyAll(opts, str)),
                               !.part = @ + 1]]
  /\ UNCHANGED <<document, pc, outcome, table_map, todo, vtable, vrule, call,
                 results, ret>>
  /\ UNCHANGED aux

\* Rule::resolve returns Ok(resolved.join("")) to validate_tables, gen or
\* gen_many
ReturnOuter ==
  /\ Resolving /\ Top.part > Len(TopRule.parts) /\ Len(stack) = 1
  /\ stack' = <<>>
  /\ LET str == Join(Top.resolved)
     IN  IF call.kind = "gen"
         THEN ret' = [k |-> "Ok", v |-> str] /\ UNCHANGED results
         ELSE IF call.kind = "gen_many"
         THEN results' = Append(results, str) /\ UNCHANGED ret
         ELSE UNCHANGED <<ret, results>>
  /\ UNCHANGED <<document, pc, outcome, table_map, todo, vtable, vrule, call>>
  /\ UNCHANGED aux

\* a Tabol was returned and no call on it is running
Idle == pc = "ready" /\ stack = <<>> /\ (call = NoCall \/ ret # NoRet)

\* Tabol::gen(id)
Gen ==
  /\ Idle
  /\ \E id \in CallIds :
       /\ call' = [kind |-> "gen", id |-> id, count |-> 0]
       /\ IF id \notin DOMAIN table_map
          THEN ret' = [k |-> "CallError", v |-> <<>>] /\ UNCHANGED stack
          ELSE /\ \E r \in Sample(table_map[id].weights) : stack' = <<Frame(id, r)>>
               /\ ret' = NoRet
  /\ UNCHANGED <<document, pc, outcome, table_map, todo, vtable, vrule, results>>
  /\ UNCHANGED aux

\* Tabol::gen_many(id, count) up to its loop
GenMany ==
  /\ Idle
  /\ \E id \in CallIds, count \in 0..MaxCount :
       /\ call' = [kind |-> "gen_many", id |-> id, count |-> count]
       /\ IF id \notin DOMAIN table_map
          THEN ret' = [k |-> "CallError", v |-> <<>>]
          ELSE ret' = NoRet
  /\ results' = <<>>
  /\ UNCHANGED <<document, pc, outcome, table_map, todo, vtable, vrule, stack>>
  /\ UNCHANGED aux

\* a loop over 0..=count
IterationsInclusive(count) == count + 1

\* the iterations gen_many's loop makes: for _ in 0..count
Iterations(count) == count

\* gen_many's loop: results.push(table.gen(self)?) count times, then Ok(results)
GenManyLoop ==
  /\ pc = "ready" /\ call.kind = "gen_many" /\ ret = NoRet /\ stack = <<>>
  /\ IF Len(results) < Iterations(call.count)
     THEN /\ \E r \in Sample(table_map[call.id].weights) :
               stack' = <<Frame(call.id, r)>>
          /\ UNCHANGED <<ret, results>>
     ELSE /\ ret' = [k |-> "Ok", v |-> results]
          /\ results' = <<>>
          /\ UNCHANGED stack
  /\ UNCHANGED <<document, pc, outcome, table_map, todo, vtable, vrule, call>>
  /\ UNCHANGED aux

Next ==
  \/ New
  \/ ValidateRule
  \/ ValidateDone
  \/ ResolveLiteral
  \/ ResolveDiceRoll
  \/ ResolveInterpolation
  \/ ReturnInner
  \/ ReturnOuter
  \/ Gen
  \/ GenMany
  \/ GenManyLoop

Spec == Init /\ [][Next]_vars

SpecAny == InitAny /\ [][Next]_vars

\* the steps the program takes by itself once Tabol::new or gen is called
Run ==
  \/ New
  \/ ValidateRule
  \/ ValidateDone
  \/ ResolveLiteral
  \/ ResolveDiceRoll
  \/ ResolveInterpolation
  \/ ReturnInner
  \/ ReturnOuter

\* Tabol::new, then calls of gen
NextLive == Run \/ Gen

\* a call that was made keeps running
SpecLive == Init /\ [][NextLive]_vars /\ WF_vars(Run)

\* ------------------------------------------------------- roll_dice alone

\* the sides of the dice rolled: small ones and the largest of usize
DiceSides == 0..MaxSides \cup {UsizeMax - 1, UsizeMax}

\* roll_dice(count, sides) is called: let mut total = 0
InitDice ==
  /\ TabolOff
  /\ FiltOff
  /\ RenderOff
  /\ ParseOff
  /\ dice \in [st : {"rolling"}, count : 0..MaxDiceCount, sides : DiceSides,
               checks : BOOLEAN, i : {0}, total : {0}]

\* one iteration of for _ in 0..count
DiceDraw ==
  /\ dice.st = "rolling" /\ dice.i < dice.count
  /\ \E t \in AddDraw(dice.total, dice.sides, dice.checks) :
       dice' = IF t = Panicked
               THEN [dice EXCEPT !.st = "panic"]
               ELSE [dice EXCEPT !.total = t, !.i = @ + 1]
  /\ UNCHANGED <<tabol, filt, render, parse>>

\* the loop is over: roll_dice returns total
DiceReturn ==
  /\ dice.st = "rolling" /\ dice.i = dice.count
  /\ dice' = [dice EXCEPT !.st = "done"]
  /\ UNCHANGED <<tabol, filt, render, parse>>

NextDice == DiceDraw \/ DiceReturn

SpecDice == InitDice /\ [][NextDice]_vars

\* ---------------------------------------------------------- filters alone

FilterOps == {"DefiniteArticle", "IndefiniteArticle", "Capitalize"}

Apple == <<"a", "p", "p", "l", "e">>

Bear == <<"b", "e", "a", "r">>

Sword == <<"s", "w", "o", "r", "d">>

\* the strings up to MaxText characters over a few characters
RECURSIVE Texts(_)
Texts(n) ==
  IF n = 0 THEN {<<>>}
  ELSE Texts(n - 1) \cup {Append(t, c) : t \in Texts(n - 1), c \in {"a", "u", "b", "E", " ", "1"}}

FilterInputs == {Apple, Bear, Sword, Elf} \cup Texts(MaxText)

\* a resolved string whose filters are about to be applied
InitFilter ==
  /\ TabolOff
  /\ DiceOff
  /\ RenderOff
  /\ ParseOff
  /\ \E str \in FilterInputs :
       filt = [st |-> "on", input |-> str, applied |-> <<>>, value |-> str]

\* opt.apply(&mut resolved) for the next filter of a pipeline
ApplyFilter ==
  /\ filt.st = "on" /\ Len(filt.applied) < MaxPipeline
  /\ \E op \in FilterOps :
       filt' = [filt EXCEPT !.applied = Append(@, op), !.value = apply(op, @)]
  /\ UNCHANGED <<tabol, dice, render, parse>>

NextFilter == ApplyFilter

SpecFilter == InitFilter /\ [][NextFilter]_vars

\* ------------------------------------------------- rendering a ParseError

\* the n_lines write_base_error asks contextual_lines for
ContextLines == 3

MaxSourceLines == 7

MaxColumn == 3

\* a - b in usize: below zero it panics when the build checks overflow (debug)
\* and wraps when it does not (release)
UsizeSub(a, b, checks) ==
  IF a >= b THEN a - b
  ELSE IF checks THEN Panicked
  ELSE a - b + UsizeMax + 1

\* contextual_lines(text, line, n_lines): start = line - n_lines,
\* end = line + n_lines, skip = start.max(0), and the iterator
\* text.lines().enumerate().skip(skip).take(end - start); a panic when one of
\* the three operations panics
ContextualLines(line, n_lines, checks) ==
  Only({IF start = Panicked THEN Err("panic", <<>>)
        ELSE Only({IF end = Panicked THEN Err("panic", <<>>)
                   ELSE Only({IF take = Panicked THEN Err("panic", <<>>)
                              ELSE Ok([skip |-> start, take |-> take], <<>>) :
                              take \in {UsizeSub(end, start, checks)}}) :
                   end \in {UsizeAdd(line, n_lines, checks)}}) :
        start \in {UsizeSub(line, n_lines, checks)}})

\* writeln!(f, "{}", l) for the 1-indexed line n of the source
SourceLine(n) == [t |-> "source", line |-> n]

\* writeln!(f, "{:indent$}^-- {}", "", msg)
Caret(indent) == [t |-> "caret", indent |-> indent]

\* write_base_error is called for a location at (line, column) of a source of
\* lines lines
InitRender ==
  /\ TabolOff
  /\ DiceOff
  /\ FiltOff
  /\ ParseOff
  /\ render \in [st : {"called"}, lines : 1..MaxSourceLines,
                 line : 1..MaxSourceLines, column : 1..MaxColumn,
                 checks : BOOLEAN, i : {0}, left : {0}, out : {<<>>}]
  /\ render.line <= render.lines

\* contextual_lines(source, line, 3)
RenderWindow ==
  /\ render.st = "called"
  /\ \E w \in {ContextualLines(render.line, ContextLines, render.checks)} :
       render' = IF w.k = "panic"
                 THEN [render EXCEPT !.st = "panic"]
                 ELSE [render EXCEPT !.st = "lines", !.i = w.v.skip, !.left = w.v.take]
  /\ UNCHANGED <<tabol, dice, filt, parse>>

\* one iteration of the for loop over (i, l): the line, and the caret under it
\* if i == line - 1
RenderLine ==
  /\ render.st = "lines" /\ render.left > 0 /\ render.i < render.lines
  /\ \E indent \in {UsizeSub(render.column, 1, render.checks)},
        at \in {UsizeSub(render.line, 1, render.checks)} :
       render' = [render EXCEPT
                    !.out = @ \o <<SourceLine(render.i + 1)>>
                              \o (IF render.i = at THEN <<Caret(indent)>> ELSE <<>>),
                    !.i = @ + 1,
                    !.left = @ - 1]
  /\ UNCHANGED <<tabol, dice, filt, parse>>

\* the iterator is exhausted: Ok(())
RenderDone ==
  /\ render.st = "lines" /\ (render.left = 0 \/ render.i >= render.lines)
  /\ render' = [render EXCEPT !.st = "done"]
  /\ UNCHANGED <<tabol, dice, filt, parse>>

NextRender == RenderWindow \/ RenderLine \/ RenderDone

SpecRender == InitRender /\ [][NextRender]_vars

\* ------------------------------------------------- the rule parsers alone

\* A character that is none of alphanumeric, '_', '-', whitespace or ASCII
\* punctuation (U+0007, a control character): no literal can hold it.
BEL == "BEL"

MaxTokens == 5

\* the pieces rule bodies are made of
Tokens ==
  {OPEN, CLOSE, <<"a">>, <<"d">>, <<"1">>, <<"|">>, FilterNames.capitalize, <<BEL>>}

\* the texts of at most n tokens
RECURSIVE Bodies(_)
Bodies(n) ==
  IF n = 0 THEN {<<>>}
  ELSE Only({shorter \cup {b \o tk : b \in shorter, tk \in Tokens} :
             shorter \in {Bodies(n - 1)}})

\* the text of a rule line after its weight and ": "
InitParse ==
  /\ TabolOff
  /\ DiceOff
  /\ FiltOff
  /\ RenderOff
  /\ \E body \in Bodies(MaxTokens) :
       parse = [st |-> "start", body |-> body, res |-> Err("none", <<>>)]

\* one part is read at the start of the body
ParseRulePart ==
  /\ parse.st = "start"
  /\ parse' = [parse EXCEPT !.st = "part", !.res = rule_part(parse.body)]
  /\ UNCHANGED <<tabol, dice, filt, render>>

\* the whole line is read
ParseRuleLine ==
  /\ parse.st = "start"
  /\ parse' = [parse EXCEPT !.st = "line", !.res = rule_line(Line(1, parse.body))]
  /\ UNCHANGED <<tabol, dice, filt, render>>

NextParse == ParseRulePart \/ ParseRuleLine

SpecParse == InitParse /\ [][NextParse]_vars

\* ---------------------------------------------------------------- claims

\* gen(id) returned on a registry that Tabol::new returned
GenReturned == pc = "ready" /\ call.kind = "gen" /\ ret # NoRet

GenManyReturned == pc = "ready" /\ call.kind = "gen_many" /\ ret # NoRet

\* Tabol::new returned or panicked
Finished == pc \in {"ready", "done", "aborted"}

\* the document is a sequence of tables, each a frontmatter and its rule lines
WellFormed ==
  /\ document # <<>>
  /\ document[1].t = "frontmatter"
  /\ document[Len(document)].t = "rule"
  /\ \A i \in 1..(Len(document) - 1) :
       document[i].t = "frontmatter" => document[i + 1].t = "rule"

\* every line of the document is one of lines
OnlyLines(lines) == \A i \in DOMAIN document : document[i] \in lines

\* C1: on a registry that Tabol::new returned, gen(id) returns a CallError if
\* and only if id is not a key of the registry: no interpolation reached while
\* a present id is resolved fails on a missing table.
C1_CallErrorIffAbsent ==
  GenReturned =>
    /\ ret.k \in {"Ok", "CallError"}
    /\ ret.k = "CallError" <=> call.id \notin DOMAIN table_map

HasInterpolation(r) == \E i \in DOMAIN r.parts : r.parts[i].t = "Interpolation"

\* gen of a table whose every rule interpolates another table returned Ok
C1_Witness ==
  /\ GenReturned
  /\ ret.k = "Ok"
  /\ call.id \in DOMAIN table_map
  /\ \A i \in DOMAIN table_map[call.id].rules :
       HasInterpolation(table_map[call.id].rules[i])

\* C2: gen_many(id, count) is all or nothing: it returns count strings, or a
\* single CallError and no list; an absent id gives the CallError.
C2_AllOrNothing ==
  GenManyReturned =>
    /\ \/ ret.k = "Ok" /\ Len(ret.v) = call.count
       \/ ret.k = "CallError" /\ ret.v = <<>>
    /\ call.id \notin DOMAIN table_map => ret.k = "CallError"
    /\ results = <<>>

\* gen_many returned MaxCount strings
C2_Witness ==
  GenManyReturned /\ ret.k = "Ok" /\ call.count = MaxCount /\ Len(ret.v) = MaxCount

\* the filters f1, .., fn of a pipeline applied to str: fn(.. f1(str))
RECURSIVE InDeclaredOrder(_, _)
InDeclaredOrder(opts, str) ==
  IF opts = <<>> THEN str
  ELSE apply(opts[Len(opts)], InDeclaredOrder(SubSeq(opts, 1, Len(opts) - 1), str))

\* The strings the specification allows gen(id) to return with at most depth
\* nested tables: for one rule of the table, the concatenation of one string
\* for each part, in order.
RECURSIVE TableStrings(_, _)
RECURSIVE PartsStrings(_, _)
RECURSIVE PartStrings(_, _)
TableStrings(id, depth) ==
  IF depth = 0 \/ id \notin DOMAIN table_map THEN {}
  ELSE UNION {PartsStrings(table_map[id].rules[r].parts, depth) :
              r \in DOMAIN table_map[id].rules}

PartsStrings(parts, depth) ==
  IF parts = <<>> THEN {<<>>}
  ELSE {h \o t : h \in PartStrings(Head(parts), depth),
                 t \in PartsStrings(Tail(parts), depth)}

PartStrings(part, depth) ==
  IF part.t = "Literal" THEN {part.text}
  ELSE IF part.t = "DiceRoll"
  THEN {to_string(n) : n \in part.count..(part.count * part.sides)}
  ELSE {InDeclaredOrder(part.opts, str) : str \in TableStrings(part.id, depth - 1)}

\* C9: a successful gen(id) returns the concatenation, with no separator, of
\* the results of the parts of one rule of table id: a literal's text, a dice
\* roll's decimal string, an interpolation's generated string with its filters
\* applied in declared order.
C9_Concatenation ==
  GenReturned /\ ret.k = "Ok" => ret.v \in TableStrings(call.id, MaxDepth)

\* {{a|capitalize|indefinite}}! over a table a of the rule elf
C9_Witness ==
  GenReturned /\ ret.k = "Ok" /\ ret.v = <<"a", " ", "E", "l", "f", "!">>

\* two tables of the document declare the same id
DuplicateIds ==
  \E i, j \in DOMAIN document :
    /\ i < j
    /\ document[i].t = "frontmatter" /\ document[j].t = "frontmatter"
    /\ document[i].id = document[j].id

\* C3: Tabol::new rejects a document in which two tables declare the same id:
\* it returns an InvalidDefinition error and no registry.
C3_DuplicateIdRejected ==
  WellFormed /\ DuplicateIds /\ Finished =>
    pc = "done" /\ outcome = "InvalidDefinition"

\* the rule lines of some table of the document all have a weight of zero
ZeroWeightTable ==
  \E i, j \in DOMAIN document :
    /\ i < j
    /\ document[i].t = "frontmatter"
    /\ \A k \in (i + 1)..j : document[k].t = "rule" /\ document[k].weight = 0
    /\ j = Len(document) \/ document[j + 1].t = "frontmatter"

\* C4: Tabol::new rejects a table whose rule weights sum to zero by returning
\* an InvalidDefinition error: it neither panics nor returns a registry.
C4_ZeroWeightsRejected ==
  WellFormed /\ OnlyLines(Lines \cup {Line(0, Elf)}) /\ ZeroWeightTable /\ Finished =>
    pc = "done" /\ outcome = "InvalidDefinition"

\* C5: a document with an interpolation whose filter name is not one of
\* definite, indefinite, capitalize makes Tabol::new return a ParseError: it
\* does not panic.
C5_UnknownFilterIsParseError ==
  /\ WellFormed
  /\ OnlyLines(Lines \cup {Line(1, RefUnknown)})
  /\ \E i \in DOMAIN document : document[i] = Line(1, RefUnknown)
  /\ Finished
  => pc = "done" /\ outcome = "ParseError"

\* C6: a document with the dice expression of no sides, {{d}}, makes
\* Tabol::new return a ParseError, whatever tables it declares: {{d}} is not
\* read as another kind of part and is no InvalidDefinition or CallError.
C6_DiceWithoutSidesIsParseError ==
  /\ WellFormed
  /\ \E i \in DOMAIN document : document[i] = Line(1, RefD)
  /\ Finished
  => pc = "done" /\ outcome = "ParseError"

\* C7: the filters' results on the examples: indefinite("apple") is
\* "an apple", indefinite("bear") "a bear", definite("sword") "the sword",
\* capitalize("elf") "Elf", and capitalize then indefinite on "elf" "an Elf".
C7_FilterExamples ==
  /\ filt.st = "on" /\ filt.input = Apple /\ filt.applied = <<"IndefiniteArticle">>
       => filt.value = <<"a", "n", " ", "a", "p", "p", "l", "e">>
  /\ filt.st = "on" /\ filt.input = Bear /\ filt.applied = <<"IndefiniteArticle">>
       => filt.value = <<"a", " ", "b", "e", "a", "r">>
  /\ filt.st = "on" /\ filt.input = Sword /\ filt.applied = <<"DefiniteArticle">>
       => filt.value = <<"t", "h", "e", " ", "s", "w", "o", "r", "d">>
  /\ filt.st = "on" /\ filt.input = Elf /\ filt.applied = <<"Capitalize">>
       => filt.value = <<"E", "l", "f">>
  /\ filt.st = "on" /\ filt.input = Elf
       /\ filt.applied = <<"Capitalize", "IndefiniteArticle">>
       => filt.value = <<"a", "n", " ", "E", "l", "f">>

\* C8: for all count >= 0 and sides >= 1, roll_dice(count, sides) returns a
\* value r with count <= r <= count * sides.
C8_RollInRange ==
  dice.st # "off" /\ dice.sides >= 1 =>
    /\ dice.st # "panic"
    /\ dice.st = "done" =>
         dice.count <= dice.total /\ dice.total <= dice.count * dice.sides

\* the same where no sum leaves usize: sides below usize::MAX and
\* count * sides at most usize::MAX
RollInRangeBelowOverflow ==
  /\ dice.st # "off"
  /\ dice.sides >= 1 /\ dice.sides < UsizeMax
  /\ dice.count * dice.sides <= UsizeMax
  => /\ dice.st # "panic"
     /\ dice.i <= dice.total /\ dice.total <= dice.i * dice.sides
     /\ dice.st = "done" => dice.i = dice.count

\* C10: every DiceRoll(count, sides) of a parsed document has sides >= 1, so
\* that Tabol::new never rolls a die of no sides.
C10_SidesAtLeastOne ==
  \A id \in DOMAIN table_map :
    \A r \in DOMAIN table_map[id].rules :
      \A i \in DOMAIN table_map[id].rules[r].parts :
        table_map[id].rules[r].parts[i].t = "DiceRoll"
          => table_map[id].rules[r].parts[i].sides >= 1

\* the snippet holds the source line of the location, and the caret line under it
SnippetWritten ==
  \E k \in 1..(Len(render.out) - 1) :
    /\ render.out[k] = SourceLine(render.line)
    /\ render.out[k + 1] = Caret(render.column - 1)

\* C11: for a failure at any line L and column C of the source, L = 1 and
\* L = 2 included, write_base_error writes a snippet that holds source line L
\* followed by a caret line indented C - 1 columns, and the window of context
\* lines is computed without underflow or panic.
C11_SnippetForEveryLine ==
  /\ render.st # "panic"
  /\ render.st = "done" => SnippetWritten

\* the same from line ContextLines on, where line - n_lines stays in usize
SnippetFromLineThree ==
  render.st # "off" /\ render.line >= ContextLines =>
    /\ render.st # "panic"
    /\ render.st = "done" => SnippetWritten

\* the tables that the rules of nonzero weight of table id interpolate
InterpolatedBy(rule_) ==
  {rule_.parts[i].id :
     i \in {j \in DOMAIN rule_.parts : rule_.parts[j].t = "Interpolation"}}

Targets(id) ==
  UNION {InterpolatedBy(table_map[id].rules[r]) :
         r \in Sample(table_map[id].weights)}
    \cap DOMAIN table_map

\* the tables reached from ids in at most n more references
RECURSIVE ReachedFrom(_, _)
ReachedFrom(ids, n) ==
  IF n = 0 THEN ids
  ELSE ReachedFrom(ids \cup UNION {Targets(id) : id \in ids}, n - 1)

\* a table reaches itself through rules of nonzero weight
Cyclic ==
  \E id \in DOMAIN table_map :
    id \in ReachedFrom(Targets(id), Cardinality(DOMAIN table_map))

\* C12: on a registry whose reference graph has no cycle every resolution
\* started by gen, gen_many or validate_tables returns; nothing limits the
\* depth, and only a cycle takes a resolution past every depth.
C12_AcyclicReturns ==
  /\ (Resolving /\ ~Cyclic) ~> (stack = <<>>)
  /\ [](pc = "deep" => Cyclic)

\* gen recursed past the depth explored, through a cycle
C12_Witness == pc = "deep" /\ call.kind = "gen" /\ Cyclic

\* C13: every part the alternation of rule accepts consumes at least one
\* character, a literal is never empty, and a body that begins with "{{" and
\* is neither a dice roll nor an interpolation makes the parse of the line
\* fail.
C13_PartsConsume ==
  /\ parse.st = "part" /\ parse.res.k = "ok" =>
       /\ Len(parse.res.rest) < Len(parse.body)
       /\ parse.res.v.t = "Literal" => parse.res.v.text # <<>>
  /\ parse.st = "line" /\ StartsWith(parse.body, OPEN)
       /\ rule_dice_roll(parse.body).k # "ok"
       /\ rule_interpolation(parse.body).k # "ok"
       => parse.res.k # "ok"

\* the line {{a, an interpolation that is not closed, failed to parse
C13_Witness ==
  parse.st = "line" /\ parse.body = OPEN \o <<"a">> /\ parse.res.k = "error"

\* the number of characters of s that are held by the parts rule reads from it:
\* the text of a literal, the whole of a dice roll or an interpolation
RECURSIVE Covered(_)
Covered(s) ==
  IF s = <<>> THEN 0
  ELSE Only({IF p.k # "ok" \/ Len(p.rest) = Len(s) THEN 0
             ELSE (IF p.v.t = "Literal" THEN Len(p.v.text)
                   ELSE Len(s) - Len(p.rest)) + Covered(p.rest) :
             p \in {rule_part(s)}})

\* C14: when a rule line parses, the parts of the rule cover its whole body: a
\* "{{" that starts no dice roll or interpolation, or a character no literal
\* holds, makes the parse fail and never gives a rule cut short.
C14_NoTextDropped ==
  parse.st = "line" /\ parse.res.k = "ok" => Covered(parse.body) = Len(parse.body)

====
